---- MODULE Spec2Model ----
(***************************************************************************)
(* Model of the diff classification engine of source-tools:                *)
(*   DecorationManager.processDiffResult  (runs of Diff.diffLines -> result)*)
(*   DecorationManager.parseUnifiedDiff   (unified diff text -> result)     *)
(* Texts are sequences of one-character strings, so that line counting,    *)
(* splitting and header parsing are computed as the code computes them.    *)
(* A decoration anchor new vscode.Range(l, 0, l, 0) is modelled by its     *)
(* line l.                                                                 *)
(***************************************************************************)
EXTENDS Integers, Sequences, FiniteSets, TLC

VARIABLES diffResult, pdr, diffText, pud, pc, cdf, upd, st, tm

\* the two classification functions
engine == <<diffResult, pdr, diffText, pud, pc>>

\* the state outside them: a call of VirtualGitDiff.computeDiffForFileAsync,
\* the decorations of the visible editors, the snapshots and the timers
host == <<cdf, upd, st, tm>>

vars == <<diffResult, pdr, diffText, pud, pc, cdf, upd, st, tm>>

(* ------------------------------ bounds --------------------------------- *)
MaxRuns == 3
MaxLines == 2
MaxDiffLines == 4

(* --------------------------- text primitives --------------------------- *)
LF == "\n"
CR == "\r"

Min(a, b) == IF a < b THEN a ELSE b

\* String.prototype.startsWith
StartsWith(s, p) == Len(s) >= Len(p) /\ SubSeq(s, 1, Len(p)) = p

\* String.prototype.endsWith
EndsWith(s, p) == Len(s) >= Len(p) /\ SubSeq(s, Len(s) - Len(p) + 1, Len(s)) = p

\* s.replace(/\r\n/g, '\n')
RECURSIVE ReplaceCrLf(_)
ReplaceCrLf(s) ==
  IF Len(s) = 0 THEN <<>>
  ELSE IF Len(s) >= 2 /\ s[1] = CR /\ s[2] = LF
       THEN <<LF>> \o ReplaceCrLf(SubSeq(s, 3, Len(s)))
       ELSE <<s[1]>> \o ReplaceCrLf(Tail(s))

\* s.split('\n'): always at least one segment
RECURSIVE Split(_)
Split(s) ==
  IF \A k \in 1..Len(s) : s[k] # LF THEN <<s>>
  ELSE LET k == CHOOSE k \in 1..Len(s) : s[k] = LF /\ \A m \in 1..(k - 1) : s[m] # LF
       IN <<SubSeq(s, 1, k - 1)>> \o Split(SubSeq(s, k + 1, Len(s)))

\* lines.join('\n')
RECURSIVE Join(_)
Join(ls) ==
  IF Len(ls) = 0 THEN <<>>
  ELSE IF Len(ls) = 1 THEN ls[1]
  ELSE ls[1] \o <<LF>> \o Join(Tail(ls))

\* lineCount of a Diff.Change: CRLF normalised, a final newline opens no line
LineCount(value) ==
  LET normalizedValue == ReplaceCrLf(value)
  IN Len(Split(normalizedValue)) - (IF EndsWith(normalizedValue, <<LF>>) THEN 1 ELSE 0)

(* ------------------------------ inputs --------------------------------- *)
\* k lines "a", each but possibly the last one closed by a newline
RECURSIVE Text(_, _)
Text(k, closed) ==
  IF k = 0 THEN <<>>
  ELSE IF k = 1 THEN (IF closed THEN <<"a", LF>> ELSE <<"a">>)
  ELSE <<"a", LF>> \o Text(k - 1, closed)

RunValues ==
  {<<>>, <<LF>>, <<CR, LF>>} \cup {Text(k, c) : k \in 1..MaxLines, c \in BOOLEAN}

\* Diff.Change: {added?, removed?, value}
Change == {[added |-> a, removed |-> r, value |-> v] :
             a \in BOOLEAN, r \in BOOLEAN, v \in RunValues} \
          {[added |-> TRUE, removed |-> TRUE, value |-> v] : v \in RunValues}

SeqsUpTo(S, n) == UNION {[1..k -> S] : k \in 0..n}

null == [isNull |-> TRUE, startLine |-> 0, endLine |-> 0]
DiffRange(s, e) == [isNull |-> FALSE, startLine |-> s, endLine |-> e]
\* {...currentAddedRange}
Copy(r) == [startLine |-> r.startLine, endLine |-> r.endLine]

(* ------------------------ processDiffResult ---------------------------- *)
\* the locals of parseUnifiedDiff before it is called
pudIdle ==
  [lines |-> <<>>, i |-> 0, targetLineNum |-> 0, currentAddedRange |-> null,
   added |-> <<>>, removed |-> <<>>, changed |-> <<>>, created |-> <<>>]

\* the locals of processDiffResult at entry
pdrIdle ==
  [i |-> 0, lineNumber |-> 0, currentAddedRange |-> null,
   removedLineCount |-> 0, removedAt |-> -1,
   added |-> <<>>, removed |-> <<>>, changed |-> <<>>, created |-> <<>>]

(* ------------------------------ host ----------------------------------- *)
\* no call of computeDiffForFileAsync in progress
cdfIdle == [pc |-> "idle"]

\* no decoration update in progress
updIdle == [pc |-> "idle"]

\* no document event in progress
stIdle == [pc |-> "idle"]

\* no timer
tmIdle == [pc |-> "idle"]

EngineIdle ==
  /\ diffResult = <<>>
  /\ pdr = pdrIdle
  /\ diffText = <<>>
  /\ pud = pudIdle
  /\ pc = [pdr |-> "idle", pud |-> "idle"]

HostIdle == cdf = cdfIdle /\ upd = updIdle /\ st = stIdle /\ tm = tmIdle

\* diffResult[i] with the 0-based index of the code
Part(k) == diffResult[k + 1]
diffCount == Len(diffResult)
HasNext == pdr.i < diffCount - 1

\* variant: any following part keeps the removal pending
NextIsAddedAny == HasNext

\* nextPart && nextPart.added
NextIsAdded == HasNext /\ Part(pdr.i + 1).added

InLoop == pc.pdr = "loop" /\ pdr.i < diffCount

\* variant: the first extra line left out
ExcessStartLate(removedAt, removedLineCount) == removedAt + removedLineCount + 1

\* variant: the extra lines counted from the start of the replacement
ExcessStartAtAnchor(removedAt, removedLineCount) == removedAt

\* first extra line of an insertion longer than the deletion it replaces
ExcessStart(removedAt, removedLineCount) == removedAt + removedLineCount

\* variant: the end taken one line too far
ExcessEndOffByOne(lineNumber, lineCount) == lineNumber + lineCount

\* last line of the inserted run
ExcessEnd(lineNumber, lineCount) == lineNumber + lineCount - 1

\* variant: every anchor on the first line of the replacement
ChangedMarksSameLine(removedAt, minLines) == [k \in 1..minLines |-> removedAt]

\* variant: a single anchor per replacement
ChangedMarksSingle(removedAt, minLines) == <<removedAt>>

\* the anchors pushed for the matched lines of a replacement
ChangedMarks(removedAt, minLines) == [k \in 1..minLines |-> removedAt + (k - 1)]

\* variant: the decoration placed after the removed block
PureRemovalBelow(removed, lineNumber, lineCount) == Append(removed, lineNumber + lineCount)

\* variant: one decoration per removed line
PureRemovalPerLine(removed, lineNumber, lineCount) ==
  removed \o [k \in 1..lineCount |-> lineNumber]

\* a pure removal: one decoration at the start of the removed block
PureRemoval(removed, lineNumber, lineCount) == Append(removed, lineNumber)

\* the locals after a part that replaces the pending removal
ChangedFrame(f, part) ==
  LET lineCount == LineCount(part.value)
      minLines == Min(lineCount, f.removedLineCount)
      marks == ChangedMarks(f.removedAt, minLines)
      startLine == ExcessStart(f.removedAt, f.removedLineCount)
      endLine == ExcessEnd(f.lineNumber, lineCount)
  IN [f EXCEPT
        !.changed = @ \o marks,
        !.added = IF lineCount > f.removedLineCount
                  THEN Append(@, [startLine |-> startLine, endLine |-> endLine])
                  ELSE @,
        !.removedLineCount = 0,
        !.removedAt = -1,
        !.lineNumber = @ + lineCount,
        !.i = @ + 1]

\* the locals after a pure addition
AddedFrame(f, part) ==
  LET lineCount == LineCount(part.value)
      startLine == f.lineNumber
      endLine == f.lineNumber + lineCount - 1
      car == f.currentAddedRange
      extend == ~car.isNull /\ car.endLine = startLine - 1
  IN [f EXCEPT
        !.currentAddedRange = IF extend THEN [car EXCEPT !.endLine = endLine]
                              ELSE DiffRange(startLine, endLine),
        !.added = IF ~extend /\ ~car.isNull THEN Append(@, Copy(car)) ELSE @,
        !.lineNumber = @ + lineCount,
        !.i = @ + 1]

\* the locals after a removed part; nextIsAdded: nextPart && nextPart.added
RemovedFrame(f, part, nextIsAdded) ==
  LET lineCount == LineCount(part.value)
      at == IF f.removedLineCount = 0 THEN f.lineNumber ELSE f.removedAt
      count == f.removedLineCount + lineCount
  IN IF nextIsAdded
     THEN [f EXCEPT !.removedAt = at, !.removedLineCount = count, !.i = @ + 1]
     ELSE [f EXCEPT !.removed = PureRemoval(@, f.lineNumber, lineCount),
                    !.removedLineCount = 0,
                    !.removedAt = -1,
                    !.i = @ + 1]

\* variant: the pending removal flushed without looking at its count
FlushPendingAlways(removed, removedLineCount, removedAt) == Append(removed, removedAt)

\* pending removals that no addition followed are true removals
FlushPending(removed, removedLineCount, removedAt) ==
  IF removedLineCount > 0 THEN Append(removed, removedAt) ELSE removed

\* the locals after an unchanged part
UnchangedFrame(f, part) ==
  LET lineCount == LineCount(part.value)
      car == f.currentAddedRange
  IN [f EXCEPT
        !.removed = FlushPending(@, f.removedLineCount, f.removedAt),
        !.removedLineCount = IF f.removedLineCount > 0 THEN 0 ELSE @,
        !.removedAt = IF f.removedLineCount > 0 THEN -1 ELSE @,
        !.added = IF ~car.isNull THEN Append(@, Copy(car)) ELSE @,
        !.currentAddedRange = null,
        !.lineNumber = @ + lineCount,
        !.i = @ + 1]

\* variant: the check dropped, nothing is ever an artifact
IsArtifactNever(added, lineNumber, runs) == FALSE

\* the end-of-file check on the runs: is the last entry of `added` a line-ending artifact
IsArtifact(added, lineNumber, runs) ==
  /\ Len(added) > 0
  /\ LET lastAdded == added[Len(added)]
     IN /\ lastAdded.startLine = lastAdded.endLine
        /\ lastAdded.startLine = lineNumber - 1
        /\ Len(runs) > 0
        /\ LET lastPart == runs[Len(runs)]
           IN lastPart.added /\ lastPart.value \in {<<LF>>, <<CR, LF>>, <<>>}

\* the locals after the loop: pending removal and open range flushed, artifact dropped
FinishFrame(f, runs) ==
  LET car == f.currentAddedRange
      removed1 == IF f.removedLineCount > 0
                  THEN Append(f.removed, f.removedAt) ELSE f.removed
      added1 == IF ~car.isNull THEN Append(f.added, Copy(car)) ELSE f.added
      added2 == IF IsArtifact(added1, f.lineNumber, runs)
                THEN SubSeq(added1, 1, Len(added1) - 1) ELSE added1
  IN [f EXCEPT !.removed = removed1, !.added = added2]

\* part.added && removedLineCount > 0 && removedAt >= 0
ChangedPart ==
  /\ InLoop
  /\ Part(pdr.i).added /\ pdr.removedLineCount > 0 /\ pdr.removedAt >= 0
  /\ pdr' = ChangedFrame(pdr, Part(pdr.i))
  /\ UNCHANGED <<diffResult, diffText, pud, pc, host>>

\* else if (part.added): a pure addition
AddedPart ==
  /\ InLoop
  /\ Part(pdr.i).added /\ ~(pdr.removedLineCount > 0 /\ pdr.removedAt >= 0)
  /\ pdr' = AddedFrame(pdr, Part(pdr.i))
  /\ UNCHANGED <<diffResult, diffText, pud, pc, host>>

\* else if (part.removed)
RemovedPart ==
  /\ InLoop
  /\ ~Part(pdr.i).added /\ Part(pdr.i).removed
  /\ pdr' = RemovedFrame(pdr, Part(pdr.i), NextIsAdded)
  /\ UNCHANGED <<diffResult, diffText, pud, pc, host>>

\* else: unchanged section
UnchangedPart ==
  /\ InLoop
  /\ ~Part(pdr.i).added /\ ~Part(pdr.i).removed
  /\ pdr' = UnchangedFrame(pdr, Part(pdr.i))
  /\ UNCHANGED <<diffResult, diffText, pud, pc, host>>

\* the end-of-file check of the call in progress
IsFalsePositive(added, lineNumber) == IsArtifact(added, lineNumber, diffResult)

\* after the loop: flush the pending removal and the open range, drop the artifact
ProcessFinish ==
  /\ pc.pdr = "loop" /\ pdr.i >= diffCount
  /\ pdr' = FinishFrame(pdr, diffResult)
  /\ pc' = [pc EXCEPT !.pdr = "done"]
  /\ UNCHANGED <<diffResult, diffText, pud, host>>

\* one iteration of the loop over the parts
StepFrame(f, runs) ==
  LET part == runs[f.i + 1]
      nextIsAdded == f.i < Len(runs) - 1 /\ runs[f.i + 2].added
  IN IF part.added /\ f.removedLineCount > 0 /\ f.removedAt >= 0 THEN ChangedFrame(f, part)
     ELSE IF part.added THEN AddedFrame(f, part)
     ELSE IF part.removed THEN RemovedFrame(f, part, nextIsAdded)
     ELSE UnchangedFrame(f, part)

RECURSIVE RunFrames(_, _)
RunFrames(f, runs) ==
  IF f.i >= Len(runs) THEN FinishFrame(f, runs) ELSE RunFrames(StepFrame(f, runs), runs)

\* the value a call returns
Result(f) ==
  [added |-> f.added, removed |-> f.removed, changed |-> f.changed, created |-> f.created]

\* processDiffResult(diffResult) as a function of its argument
processDiffResult(runs) == Result(RunFrames(pdrIdle, runs))

\* entry: the locals of processDiffResult
ProcessBegin ==
  /\ pc.pdr = "start"
  /\ pdr' = pdrIdle
  /\ pc' = [pc EXCEPT !.pdr = "loop"]
  /\ UNCHANGED <<diffResult, diffText, pud, host>>

NextClassifier ==
  \/ ProcessBegin
  \/ ChangedPart
  \/ AddedPart
  \/ RemovedPart
  \/ UnchangedPart
  \/ ProcessFinish

InitClassifier ==
  /\ diffResult \in SeqsUpTo(Change, MaxRuns)
  /\ pdr = pdrIdle
  /\ diffText = <<>>
  /\ pud = pudIdle
  /\ pc = [pdr |-> "start", pud |-> "idle"]
  /\ HostIdle

SpecClassifier == InitClassifier /\ [][NextClassifier]_vars

(* ------------------------- parseUnifiedDiff ---------------------------- *)
IsDigit(c) == c \in {"0", "1", "2", "3", "4", "5", "6", "7", "8", "9"}
DigitValue(c) ==
  CHOOSE d \in 0..9 : <<"0", "1", "2", "3", "4", "5", "6", "7", "8", "9">>[d + 1] = c

\* parseInt(s, 10) of a string of digits
RECURSIVE ParseInt(_)
ParseInt(ds) ==
  IF Len(ds) = 0 THEN 0
  ELSE ParseInt(SubSeq(ds, 1, Len(ds) - 1)) * 10 + DigitValue(ds[Len(ds)])

\* \d+ from position p: the first position that holds no digit
RECURSIVE DigitsEnd(_, _)
DigitsEnd(s, p) == IF p <= Len(s) /\ IsDigit(s[p]) THEN DigitsEnd(s, p + 1) ELSE p

\* (?:,\d+)? from position p
OptCount(s, p) ==
  IF p <= Len(s) /\ s[p] = "," /\ DigitsEnd(s, p + 1) > p + 1 THEN DigitsEnd(s, p + 1) ELSE p

\* the literal lit at position p
At(s, p, lit) == p + Len(lit) - 1 <= Len(s) /\ SubSeq(s, p, p + Len(lit) - 1) = lit

\* line.match(/^@@ -(\d+)(?:,\d+)? \+(\d+)(?:,\d+)? @@/), with capture group 2
HunkMatch(line) ==
  LET s1 == 5
      e1 == DigitsEnd(line, s1)
      p1 == OptCount(line, e1)
      s2 == p1 + 2
      e2 == DigitsEnd(line, s2)
      p2 == OptCount(line, e2)
  IN IF /\ At(line, 1, <<"@", "@", " ", "-">>)
        /\ e1 > s1
        /\ At(line, p1, <<" ", "+">>)
        /\ e2 > s2
        /\ At(line, p2, <<" ", "@", "@">>)
     THEN [matched |-> TRUE, target |-> SubSeq(line, s2, e2 - 1)]
     ELSE [matched |-> FALSE, target |-> <<>>]

IsMetadata(line) ==
  \/ StartsWith(line, <<"d", "i", "f", "f", " ", "-", "-", "g", "i", "t">>)
  \/ StartsWith(line, <<"i", "n", "d", "e", "x", " ">>)
  \/ StartsWith(line, <<"-", "-", "-">>)
  \/ StartsWith(line, <<"+", "+", "+">>)

IsPlus(line) == StartsWith(line, <<"+">>) /\ ~StartsWith(line, <<"+", "+", "+">>)
IsMinus(line) == StartsWith(line, <<"-">>) /\ ~StartsWith(line, <<"-", "-", "-">>)

\* lines[i] with the 0-based index of the code
Line(k) == pud.lines[k + 1]
InParse == pc.pud = "loop" /\ pud.i < Len(pud.lines)

\* the look-ahead of a '-' line: skip blank and context lines from index j
RECURSIVE Lookahead(_, _)
Lookahead(lines, j) ==
  IF /\ j < Len(lines)
     /\ \/ lines[j + 1] = <<>>
        \/ /\ ~StartsWith(lines[j + 1], <<"+">>)
           /\ ~StartsWith(lines[j + 1], <<"-">>)
           /\ ~HunkMatch(lines[j + 1]).matched
  THEN Lookahead(lines, j + 1)
  ELSE j

\* a '+' follows the '-' line at index i
PlusFollows(lines, i) ==
  LET j == Lookahead(lines, i + 1)
  IN j < Len(lines) /\ StartsWith(lines[j + 1], <<"+">>)

\* the changed anchor pushed for a '-' line that a '+' line follows
PushChanged(changed, targetLineNum) == Append(changed, targetLineNum)

\* the removed anchor of a '-' line, unless the same anchor exists already
PushRemoved(removed, targetLineNum) ==
  IF \E k \in DOMAIN removed : removed[k] = targetLineNum
  THEN removed ELSE Append(removed, targetLineNum)

\* the locals at entry: the text split into lines
ParseBeginFrame(text) ==
  [lines |-> Split(text), i |-> 0, targetLineNum |-> 0,
   currentAddedRange |-> null,
   added |-> <<>>, removed |-> <<>>, changed |-> <<>>, created |-> <<>>]

\* the locals after a metadata line
MetadataFrame(u) == [u EXCEPT !.i = @ + 1]

\* the locals after a hunk header
HunkFrame(u) ==
  LET car == u.currentAddedRange
  IN [u EXCEPT
        !.added = IF ~car.isNull THEN Append(@, Copy(car)) ELSE @,
        !.currentAddedRange = null,
        !.targetLineNum = ParseInt(HunkMatch(u.lines[u.i + 1]).target) - 1,
        !.i = @ + 1]

\* the locals after a '+' line
PlusFrame(u) ==
  LET car == u.currentAddedRange
      t == u.targetLineNum
  IN [u EXCEPT
        !.currentAddedRange =
           IF car.isNull THEN DiffRange(t, t)
           ELSE IF car.endLine = t - 1 THEN [car EXCEPT !.endLine = t]
           ELSE DiffRange(t, t),
        !.added = IF ~car.isNull /\ car.endLine # t - 1
                  THEN Append(@, Copy(car)) ELSE @,
        !.targetLineNum = @ + 1,
        !.i = @ + 1]

\* the locals after a '-' line
MinusFrame(u) ==
  IF PlusFollows(u.lines, u.i)
  THEN [u EXCEPT !.changed = PushChanged(@, u.targetLineNum), !.i = @ + 1]
  ELSE [u EXCEPT !.removed = PushRemoved(@, u.targetLineNum), !.i = @ + 1]

\* variant: a context line leaves the target line where it is
ContextAdvanceNone(line, targetLineNum) == targetLineNum

\* a normal context line increments the target line pointer
ContextAdvance(line, targetLineNum) ==
  IF ~StartsWith(line, <<"+">>) /\ ~StartsWith(line, <<"-">>)
  THEN targetLineNum + 1 ELSE targetLineNum

\* the locals after any other line
ContextFrame(u) ==
  LET car == u.currentAddedRange
      line == u.lines[u.i + 1]
  IN [u EXCEPT
        !.added = IF ~car.isNull THEN Append(@, Copy(car)) ELSE @,
        !.currentAddedRange = null,
        !.targetLineNum = ContextAdvance(line, @),
        !.i = @ + 1]

\* the locals after the loop
ParseFinishFrame(u) ==
  LET car == u.currentAddedRange
  IN [u EXCEPT !.added = IF ~car.isNull THEN Append(@, Copy(car)) ELSE @]

\* entry: split the text and initialise the locals
ParseBegin ==
  /\ pc.pud = "start"
  /\ pud' = ParseBeginFrame(diffText)
  /\ pc' = [pc EXCEPT !.pud = "loop"]
  /\ UNCHANGED <<diffResult, pdr, diffText, host>>

\* diff --git, index, ---, +++ : skipped
MetadataLine ==
  /\ InParse
  /\ IsMetadata(Line(pud.i))
  /\ pud' = MetadataFrame(pud)
  /\ UNCHANGED <<diffResult, pdr, diffText, pc, host>>

\* @@ -a,b +c,d @@
HunkHeader ==
  /\ InParse
  /\ ~IsMetadata(Line(pud.i))
  /\ HunkMatch(Line(pud.i)).matched
  /\ pud' = HunkFrame(pud)
  /\ UNCHANGED <<diffResult, pdr, diffText, pc, host>>

\* + lines
PlusLine ==
  /\ InParse
  /\ ~IsMetadata(Line(pud.i))
  /\ ~HunkMatch(Line(pud.i)).matched
  /\ IsPlus(Line(pud.i))
  /\ pud' = PlusFrame(pud)
  /\ UNCHANGED <<diffResult, pdr, diffText, pc, host>>

\* - lines
MinusLine ==
  /\ InParse
  /\ ~IsMetadata(Line(pud.i))
  /\ ~HunkMatch(Line(pud.i)).matched
  /\ ~IsPlus(Line(pud.i))
  /\ IsMinus(Line(pud.i))
  /\ pud' = MinusFrame(pud)
  /\ UNCHANGED <<diffResult, pdr, diffText, pc, host>>

\* any other line: close the open range, advance the target line
ContextLine ==
  /\ InParse
  /\ ~IsMetadata(Line(pud.i))
  /\ ~HunkMatch(Line(pud.i)).matched
  /\ ~IsPlus(Line(pud.i))
  /\ ~IsMinus(Line(pud.i))
  /\ pud' = ContextFrame(pud)
  /\ UNCHANGED <<diffResult, pdr, diffText, pc, host>>

\* after the loop: close the unfinished range
ParseFinish ==
  /\ pc.pud = "loop" /\ pud.i >= Len(pud.lines)
  /\ pud' = ParseFinishFrame(pud)
  /\ pc' = [pc EXCEPT !.pud = "done"]
  /\ UNCHANGED <<diffResult, pdr, diffText, host>>

\* one iteration of the loop over the lines
ParseStepFrame(u) ==
  LET line == u.lines[u.i + 1]
  IN IF IsMetadata(line) THEN MetadataFrame(u)
     ELSE IF HunkMatch(line).matched THEN HunkFrame(u)
     ELSE IF IsPlus(line) THEN PlusFrame(u)
     ELSE IF IsMinus(line) THEN MinusFrame(u)
     ELSE ContextFrame(u)

RECURSIVE ParseFrames(_)
ParseFrames(u) ==
  IF u.i >= Len(u.lines) THEN ParseFinishFrame(u) ELSE ParseFrames(ParseStepFrame(u))

\* parseUnifiedDiff(diffText) as a function of its argument
parseUnifiedDiff(text) == Result(ParseFrames(ParseBeginFrame(text)))

NextParser ==
  \/ ParseBegin
  \/ MetadataLine
  \/ HunkHeader
  \/ PlusLine
  \/ MinusLine
  \/ ContextLine
  \/ ParseFinish

\* the lines a unified diff text is drawn from
DiffLineSet ==
  { <<"+", "b">>,
    <<"-", "a">>,
    <<" ", "c">>,
    <<>>,
    <<"@", "@", " ", "-", "1", " ", "+", "1", " ", "@", "@">>,
    <<"@", "@", " ", "-", "1", ",", "2", " ", "+", "2", ",", "3", " ", "@", "@">>,
    <<"@", "@", " ", "-", "1">>,
    <<"-", "-", "-", " ", "a">>,
    <<"+", "+", "+", " ", "b">>,
    <<"d", "i", "f", "f", " ", "-", "-", "g", "i", "t">>,
    <<"i", "n", "d", "e", "x", " ", "1">> }

InitParser ==
  /\ diffResult = <<>>
  /\ pdr = pdrIdle
  /\ diffText \in {Join(ls) : ls \in SeqsUpTo(DiffLineSet, MaxDiffLines)}
  /\ pud = pudIdle
  /\ pc = [pdr |-> "idle", pud |-> "start"]
  /\ HostIdle

SpecParser == InitParser /\ [][NextParser]_vars

ParserDone == pc.pud = "done"

(* ------------- the two front ends on the same base/current pair -------- *)
\* k lines holding the character ch, each closed by a newline
RECURSIVE Block(_, _)
Block(ch, k) == IF k = 0 THEN <<>> ELSE <<ch, LF>> \o Block(ch, k - 1)

\* runs as Diff.diffLines returns them for a pair of texts: deleted lines "a",
\* inserted lines "b", common lines "c"
PairChange ==
  {[added |-> FALSE, removed |-> TRUE, value |-> Block("a", k)] : k \in 1..MaxLines}
  \cup {[added |-> TRUE, removed |-> FALSE, value |-> Block("b", k)] : k \in 1..MaxLines}
  \cup {[added |-> FALSE, removed |-> FALSE, value |-> Block("c", k)] : k \in 1..MaxLines}

\* consecutive runs differ in tag and a deletion precedes the insertion that replaces it
PairRuns ==
  {rs \in SeqsUpTo(PairChange, MaxRuns) :
     \A k \in 1..(Len(rs) - 1) :
       /\ <<rs[k].added, rs[k].removed>> # <<rs[k + 1].added, rs[k + 1].removed>>
       /\ ~(rs[k].added /\ rs[k + 1].removed)}

\* the lines of a text whose lines are closed by newlines
LinesOf(value) ==
  LET segs == Split(ReplaceCrLf(value))
  IN IF EndsWith(value, <<LF>>) THEN SubSeq(segs, 1, Len(segs) - 1) ELSE segs

\* decimal digits of a natural number
RECURSIVE IntToStr(_)
IntToStr(n) ==
  LET d == <<<<"0", "1", "2", "3", "4", "5", "6", "7", "8", "9">>[(n % 10) + 1]>>
  IN IF n < 10 THEN d ELSE IntToStr(n \div 10) \o d

\* "start,count" of one side of a hunk that spans the whole file
HunkSide(count) ==
  IF count = 0 THEN <<"0", ",", "0">>
  ELSE IF count = 1 THEN <<"1">>
  ELSE <<"1", ",">> \o IntToStr(count)

RECURSIVE BodyLines(_)
BodyLines(rs) ==
  IF Len(rs) = 0 THEN <<>>
  ELSE LET prefix == IF rs[1].added THEN "+" ELSE IF rs[1].removed THEN "-" ELSE " "
           ls == LinesOf(rs[1].value)
       IN [k \in 1..Len(ls) |-> <<prefix>> \o ls[k]] \o BodyLines(Tail(rs))

RECURSIVE CountLines(_, _)
CountLines(rs, side) ==
  IF Len(rs) = 0 THEN 0
  ELSE (IF (side = "base" /\ rs[1].added) \/ (side = "current" /\ rs[1].removed)
        THEN 0 ELSE Len(LinesOf(rs[1].value)))
       + CountLines(Tail(rs), side)

\* stdout of `git diff <ref> -- <path>` for the pair the runs describe.  The
\* common runs have at most 3 lines, so the default context of 3 lines keeps
\* the whole file in one hunk.
UnifiedDiffOf(rs) ==
  IF \A k \in DOMAIN rs : ~rs[k].added /\ ~rs[k].removed THEN <<>>
  ELSE Join(<< <<"d", "i", "f", "f", " ", "-", "-", "g", "i", "t", " ", "a", " ", "b">>,
               <<"i", "n", "d", "e", "x", " ", "1", ".", ".", "2">>,
               <<"-", "-", "-", " ", "a">>,
               <<"+", "+", "+", " ", "b">>,
               <<"@", "@", " ", "-">> \o HunkSide(CountLines(rs, "base"))
                 \o <<" ", "+">> \o HunkSide(CountLines(rs, "current"))
                 \o <<" ", "@", "@">> >>
            \o BodyLines(rs)) \o <<LF>>

InitEquiv ==
  /\ diffResult \in PairRuns
  /\ pdr = pdrIdle
  /\ diffText = UnifiedDiffOf(diffResult)
  /\ pud = pudIdle
  /\ pc = [pdr |-> "start", pud |-> "start"]
  /\ HostIdle

NextEquiv == NextClassifier \/ NextParser

SpecEquiv == InitEquiv /\ [][NextEquiv]_vars

(* -------------------- properties of processDiffResult ------------------ *)
IsAdded(k) == diffResult[k].added
IsRemoved(k) == ~diffResult[k].added /\ diffResult[k].removed
IsUnchanged(k) == ~diffResult[k].added /\ ~diffResult[k].removed
RunTag(k) == IF IsAdded(k) THEN "inserted" ELSE IF IsRemoved(k) THEN "deleted" ELSE "unchanged"
RunLines(k) == LineCount(diffResult[k].value)

\* consecutive runs carry different tags
AltTags == \A k \in 1..(Len(diffResult) - 1) : RunTag(k) # RunTag(k + 1)

\* number of current-file lines that precede run k
RECURSIVE Before(_)
Before(k) ==
  IF k <= 1 THEN 0
  ELSE Before(k - 1) + (IF IsRemoved(k - 1) THEN 0 ELSE RunLines(k - 1))

\* a deleted run immediately followed by an inserted run
Replaced(k) == k < Len(diffResult) /\ IsRemoved(k) /\ IsAdded(k + 1)
\* a deleted run that is not immediately followed by an inserted run
PurelyDeleted(k) == IsRemoved(k) /\ ~Replaced(k)

Covered(added) == UNION {added[j].startLine..added[j].endLine : j \in DOMAIN added}
Anchored(anchors) == {anchors[j] : j \in DOMAIN anchors}
NoDuplicate(anchors) == \A j, m \in DOMAIN anchors : j # m => anchors[j] # anchors[m]
Disjoint3(added, removed, changed) ==
  /\ Covered(added) \cap Anchored(removed) = {}
  /\ Covered(added) \cap Anchored(changed) = {}
  /\ Anchored(removed) \cap Anchored(changed) = {}

ClassifierDone == pc.pdr = "done"

\* C1: with consecutive runs of different tags, the result of processDiffResult
\* has no line in more than one of the added ranges, the removed anchors and
\* the changed anchors.
C1_ClassifierNoOverlap ==
  (ClassifierDone /\ AltTags) => Disjoint3(pdr.added, pdr.removed, pdr.changed)

C1_Witness ==
  /\ ClassifierDone /\ AltTags
  /\ pdr.added # <<>> /\ pdr.removed # <<>> /\ pdr.changed # <<>>

\* C4: a deleted run of r lines immediately followed by an inserted run of n
\* lines gives exactly min(n, r) changed anchors, on the consecutive lines from
\* the line of the deletion; the deletion gives no removed anchor (removed holds
\* one anchor per deleted run that is not so followed), and for n <= r no added
\* range touches the inserted lines.
C4_ReplacementAnchors ==
  ClassifierDone =>
    /\ \A k \in DOMAIN diffResult : Replaced(k) =>
         LET r == RunLines(k)
             n == RunLines(k + 1)
             S == Before(k)
             here == {j \in DOMAIN pdr.changed : pdr.changed[j] \in S..(S + n - 1)}
         IN /\ Cardinality(here) = Min(n, r)
            /\ {pdr.changed[j] : j \in here} = S..(S + Min(n, r) - 1)
            /\ (n <= r => Covered(pdr.added) \cap (S..(S + n - 1)) = {})
    /\ Len(pdr.removed) = Cardinality({k \in DOMAIN diffResult : PurelyDeleted(k)})

C4_Witness ==
  /\ ClassifierDone
  /\ \E k \in DOMAIN diffResult :
       /\ Replaced(k) /\ RunLines(k) = 2 /\ RunLines(k + 1) = 1 /\ Before(k) > 0
       /\ pdr.changed = <<Before(k)>> /\ pdr.added = <<>> /\ pdr.removed = <<>>

\* C5: a deleted run of r lines immediately followed by an inserted run of
\* n > r lines gives exactly one added range for the n - r excess lines, from
\* the line after the last changed anchor to the last line of the inserted run.
C5_ExcessRange ==
  ClassifierDone =>
    \A k \in DOMAIN diffResult :
      (Replaced(k) /\ RunLines(k + 1) > RunLines(k)) =>
        LET r == RunLines(k)
            n == RunLines(k + 1)
            S == Before(k)
            touching == {j \in DOMAIN pdr.added :
                           (pdr.added[j].startLine..pdr.added[j].endLine)
                             \cap (S..(S + n - 1)) # {}}
        IN /\ Cardinality(touching) = 1
           /\ \A j \in touching :
                pdr.added[j] = [startLine |-> S + r, endLine |-> S + n - 1]
           /\ (S + r - 1) \in Anchored(pdr.changed)

C5_Witness ==
  /\ ClassifierDone
  /\ \E k \in DOMAIN diffResult :
       /\ Replaced(k) /\ RunLines(k) = 1 /\ RunLines(k + 1) = 2 /\ Before(k) = 1
       /\ pdr.added = <<[startLine |-> 2, endLine |-> 2]>>

\* C6: every deleted run that is not immediately followed by an inserted run
\* gives exactly one removed anchor, whatever its number of lines, at the
\* number of current-file lines that precede the deletion.
C6_PureRemovalAnchor ==
  ClassifierDone =>
    LET P == {k \in DOMAIN diffResult : PurelyDeleted(k)}
    IN /\ Len(pdr.removed) = Cardinality(P)
       /\ \A k \in P : pdr.removed[Cardinality({m \in P : m <= k})] = Before(k)

C6_Witness ==
  /\ ClassifierDone
  /\ \E k \in DOMAIN diffResult :
       PurelyDeleted(k) /\ RunLines(k) = 2 /\ Before(k) = 2 /\ pdr.removed = <<2>>

C9_ClassifierDeduplicated ==
  (ClassifierDone /\ AltTags) => NoDuplicate(pdr.removed) /\ NoDuplicate(pdr.changed)

C9_Witness ==
  /\ ClassifierDone /\ AltTags
  /\ Len(pdr.removed) >= 1
  /\ \E k \in DOMAIN diffResult : Replaced(k) /\ Len(pdr.changed) >= 2

(* -------------------- properties of parseUnifiedDiff ------------------- *)
\* C2: the result of parseUnifiedDiff has no line in more than one of the added
\* ranges, the removed anchors and the changed anchors, for every diff text.
C2_ParserNoOverlap ==
  ParserDone => Disjoint3(pud.added, pud.removed, pud.changed)

\* C10: parseUnifiedDiff reports no line twice in removed and no line twice in
\* changed, for every diff text.
C10_ParserDeduplicated ==
  ParserDone => NoDuplicate(pud.removed) /\ NoDuplicate(pud.changed)

\* C3: processDiffResult on the runs of a pair and parseUnifiedDiff on a unified
\* diff of the same pair give the same added lines, the same removed anchors
\* and the same changed anchors.
C3_FrontEndsAgree ==
  (ClassifierDone /\ ParserDone) =>
    /\ Covered(pdr.added) = Covered(pud.added)
    /\ Anchored(pdr.removed) = Anchored(pud.removed)
    /\ Anchored(pdr.changed) = Anchored(pud.changed)

(* ------------------- identical texts, malformed lines ------------------ *)
AllEmpty(r) == r.added = <<>> /\ r.removed = <<>> /\ r.changed = <<>> /\ r.created = <<>>

\* the runs of a pair of identical texts: none, or unchanged runs only
OnlyUnchanged == \A k \in DOMAIN diffResult : IsUnchanged(k)

\* C12: when the run sequence is empty or has unchanged runs only (base and
\* current are the same text, the empty text included), the classification has
\* added, removed, changed and created all empty.
C12_IdenticalTextsEmpty ==
  (ClassifierDone /\ OnlyUnchanged) => AllEmpty(pdr) /\ AllEmpty(processDiffResult(diffResult))

C12_Witness ==
  /\ ClassifierDone /\ OnlyUnchanged
  /\ Len(diffResult) >= 2
  /\ pdr.lineNumber >= 2

\* a line that is no metadata line, no well-formed hunk header, no '+' and no '-' line
Unparseable(line) ==
  /\ ~IsMetadata(line)
  /\ ~HunkMatch(line).matched
  /\ ~StartsWith(line, <<"+">>)
  /\ ~StartsWith(line, <<"-">>)

\* the added ranges after the open range, if any, is closed
Closed(u) ==
  IF u.currentAddedRange.isNull THEN u.added ELSE Append(u.added, Copy(u.currentAddedRange))

MaxDocLines == 2

\* the lines a document is made of: two different lines and the blank line
DocLines == {<<"a">>, <<"b">>, <<>>}

\* the document texts: one to MaxDocLines editor lines, and one CRLF text
DocTexts ==
  {Join(ls) : ls \in UNION {[1..k -> DocLines] : k \in 1..MaxDocLines}} \cup {<<"a", CR, LF>>}

\* the line tokens of diffLines (stripTrailingCr: true, newlineIsToken: false):
\* each line with its newline, no token for the empty rest after a final newline
Tokenize(value) ==
  LET ls == Split(ReplaceCrLf(value))
      n == Len(ls)
  IN [k \in 1..(IF ls[n] = <<>> THEN n - 1 ELSE n) |->
        IF k < n THEN ls[k] \o <<LF>> ELSE ls[k]]

StripNewline(t) == IF EndsWith(t, <<LF>>) THEN SubSeq(t, 1, Len(t) - 1) ELSE t

\* variant: tokens compared as they are (ignoreNewlineAtEof: false)
TokEqExact(l, r) == l = r

\* token equality under ignoreNewlineAtEof: true
TokEq(l, r) == StripNewline(l) = StripNewline(r)

RECURSIVE Concat(_)
Concat(toks) == IF Len(toks) = 0 THEN <<>> ELSE toks[1] \o Concat(Tail(toks))

\* the number of leading tokens the two texts share
CommonPrefix(o, n) ==
  CHOOSE k \in 0..Min(Len(o), Len(n)) :
    /\ \A j \in 1..k : TokEq(o[j], n[j])
    /\ k < Min(Len(o), Len(n)) => ~TokEq(o[k + 1], n[k + 1])

\* the number of trailing tokens the two texts share behind the prefix p
CommonSuffix(o, n, p) ==
  CHOOSE k \in 0..(Min(Len(o), Len(n)) - p) :
    /\ \A j \in 0..(k - 1) : TokEq(o[Len(o) - j], n[Len(n) - j])
    /\ k < Min(Len(o), Len(n)) - p => ~TokEq(o[Len(o) - k], n[Len(n) - k])

\* one Diff.Change, or none for an empty run
Run(added, removed, toks) ==
  IF Len(toks) = 0 THEN <<>>
  ELSE <<[added |-> added, removed |-> removed, value |-> Concat(toks)]>>

\* the two texts cut into shared head, old middle, new middle, shared tail
Cut(base, current) ==
  LET o == Tokenize(base)
      n == Tokenize(current)
      p == CommonPrefix(o, n)
      q == CommonSuffix(o, n, p)
  IN [head |-> SubSeq(n, 1, p),
      old |-> SubSeq(o, p + 1, Len(o) - q),
      new |-> SubSeq(n, p + 1, Len(n) - q),
      tail |-> SubSeq(n, Len(n) - q + 1, Len(n))]

\* the pairs with a single shortest edit script: no token of a middle occurs
\* anywhere else
DiffDetermined(base, current) ==
  LET c == Cut(base, current)
      rest == c.head \o c.tail
  IN /\ \A i \in DOMAIN c.old : \A j \in DOMAIN c.new : ~TokEq(c.old[i], c.new[j])
     /\ \A i \in DOMAIN c.old : \A j \in DOMAIN rest : ~TokEq(c.old[i], rest[j])
     /\ \A i \in DOMAIN c.new : \A j \in DOMAIN rest : ~TokEq(c.new[i], rest[j])

\* Diff.diffLines(base, current, {ignoreNewlineAtEof: true, stripTrailingCr: true}):
\* unchanged runs carry the text of current, a deletion precedes its insertion
DiffLines(base, current) ==
  LET c == Cut(base, current)
  IN Run(FALSE, FALSE, c.head) \o Run(FALSE, TRUE, c.old)
       \o Run(TRUE, FALSE, c.new) \o Run(FALSE, FALSE, c.tail)

\* editor.document.lineCount: the text after a final newline is a line too
DocumentLineCount(text) == Len(Split(ReplaceCrLf(text)))

(* -------------- VirtualGitDiff.computeDiffForFileAsync ----------------- *)
MaxStdoutLines == 2

EmptyResult == [added |-> <<>>, removed |-> <<>>, changed |-> <<>>, created |-> <<>>]

\* getActiveSnapshot(filePath): undefined, or a snapshot with its content
NoSnapshot == [present |-> FALSE, content |-> <<>>]
Snapshot(text) == [present |-> TRUE, content |-> text]

\* git show <ref>:<path>: a non-zero status when the file is not in the ref
ShowFailed == [status |-> 1, stdout |-> <<>>]
ShowOk(text) == [status |-> 0, stdout |-> text]

\* the outputs of git diff the parser is given
GitDiffOutputs ==
  {Join(ls) : ls \in UNION {[1..k -> DiffLineSet] : k \in 0..MaxStdoutLines}}

\* the pairs of document texts diffLines is modelled for
DiffPairs == {x \in DocTexts \X DocTexts : DiffDetermined(x[1], x[2])}

\* what one call finds: the active snapshot, the visible editor and its text,
\* the git root, the resolved ref, the output of git show and of git diff
Call(snapshot, editor, current, gitRoot, resolvedRef, show, diffOut) ==
  [pc |-> "start", snapshot |-> snapshot, editor |-> editor, current |-> current,
   gitRoot |-> gitRoot, resolvedRef |-> resolvedRef, show |-> show, diffOut |-> diffOut,
   result |-> EmptyResult]

Calls ==
  {Call(Snapshot(x[1]), TRUE, x[2], g, TRUE, ShowFailed, <<>>) :
     x \in DiffPairs, g \in BOOLEAN}
  \cup {Call(NoSnapshot, TRUE, c, g, r, ShowFailed, <<>>) :
     c \in DocTexts, g \in BOOLEAN, r \in BOOLEAN}
  \cup {Call(NoSnapshot, TRUE, x[2], TRUE, TRUE, ShowOk(x[1]), <<>>) : x \in DiffPairs}
  \cup {Call(sn, FALSE, <<>>, g, r, ShowFailed, <<>>) :
     sn \in {NoSnapshot, Snapshot(<<"a">>)}, g \in BOOLEAN, r \in BOOLEAN}
  \cup {Call(sn, FALSE, <<>>, TRUE, TRUE, ShowFailed, d) :
     sn \in {NoSnapshot, Snapshot(<<"a">>)}, d \in GitDiffOutputs}

\* variant: a new file reported as created and as added
NewFileAlsoAdded(lineCount) ==
  [added |-> <<[startLine |-> 0, endLine |-> lineCount - 1]>>, removed |-> <<>>,
   changed |-> <<>>, created |-> <<[startLine |-> 0, endLine |-> lineCount - 1]>>]

\* variant: a new file reported as added only
NewFileAsAdded(lineCount) ==
  [added |-> <<[startLine |-> 0, endLine |-> lineCount - 1]>>, removed |-> <<>>,
   changed |-> <<>>, created |-> <<>>]

\* the file is not in the base ref: every line of the editor is created
NewFileResult(lineCount) ==
  [added |-> <<>>, removed |-> <<>>, changed |-> <<>>,
   created |-> <<[startLine |-> 0, endLine |-> lineCount - 1]>>]

Return(result) == cdf' = [cdf EXCEPT !.pc = "done", !.result = result]

UsesSnapshot == cdf.snapshot.present /\ cdf.editor

\* an active snapshot and a visible editor: snapshot content against the editor
SnapshotDiff ==
  /\ cdf.pc = "start"
  /\ UsesSnapshot
  /\ Return(processDiffResult(DiffLines(cdf.snapshot.content, cdf.current)))
  /\ UNCHANGED <<engine, upd, st, tm>>

\* if (!gitRoot)
NoGitRoot ==
  /\ cdf.pc = "start"
  /\ ~UsesSnapshot
  /\ ~cdf.gitRoot
  /\ Return(EmptyResult)
  /\ UNCHANGED <<engine, upd, st, tm>>

\* if (!resolvedRef)
RefUnresolved ==
  /\ cdf.pc = "start"
  /\ ~UsesSnapshot
  /\ cdf.gitRoot /\ ~cdf.resolvedRef
  /\ Return(EmptyResult)
  /\ UNCHANGED <<engine, upd, st, tm>>

\* git show fails: the file is new
NewFile ==
  /\ cdf.pc = "start"
  /\ ~UsesSnapshot
  /\ cdf.gitRoot /\ cdf.resolvedRef
  /\ cdf.editor
  /\ cdf.show.status # 0
  /\ Return(NewFileResult(DocumentLineCount(cdf.current)))
  /\ UNCHANGED <<engine, upd, st, tm>>

\* the content at the ref against the editor
BaseDiff ==
  /\ cdf.pc = "start"
  /\ ~UsesSnapshot
  /\ cdf.gitRoot /\ cdf.resolvedRef
  /\ cdf.editor
  /\ cdf.show.status = 0
  /\ Return(processDiffResult(DiffLines(cdf.show.stdout, cdf.current)))
  /\ UNCHANGED <<engine, upd, st, tm>>

\* no visible editor: git diff against the working tree
GitDiff ==
  /\ cdf.pc = "start"
  /\ ~UsesSnapshot
  /\ cdf.gitRoot /\ cdf.resolvedRef
  /\ ~cdf.editor
  /\ Return(parseUnifiedDiff(cdf.diffOut))
  /\ UNCHANGED <<engine, upd, st, tm>>

NextCompute ==
  \/ SnapshotDiff
  \/ NoGitRoot
  \/ RefUnresolved
  \/ NewFile
  \/ BaseDiff
  \/ GitDiff

InitCompute ==
  /\ EngineIdle
  /\ cdf \in Calls
  /\ upd = updIdle /\ st = stIdle /\ tm = tmIdle

SpecCompute == InitCompute /\ [][NextCompute]_vars

(* ------------- properties of computeDiffForFileAsync ------------------- *)
ComputeDone == cdf.pc = "done"

\* the call went down to git show and git show failed
BaseAbsent ==
  /\ ~UsesSnapshot
  /\ cdf.gitRoot /\ cdf.resolvedRef /\ cdf.editor
  /\ cdf.show.status # 0

\* the call classified a pair of texts: its base
DiffedBase == IF UsesSnapshot THEN cdf.snapshot.content ELSE cdf.show.stdout
Diffed == UsesSnapshot \/ (cdf.gitRoot /\ cdf.resolvedRef /\ cdf.editor /\ cdf.show.status = 0)

WholeFile(n) == <<[startLine |-> 0, endLine |-> n - 1]>>

\* C11: created is non-empty only when git show finds no base content at the
\* resolved reference; the result is then created = [{0, lineCount - 1}] with
\* added, removed and changed empty. processDiffResult and parseUnifiedDiff
\* return created empty, so no result has created non-empty together with a
\* non-empty added, removed or changed.
C11_CreatedExclusive ==
  ComputeDone =>
    /\ cdf.result.created # <<>> =>
         /\ BaseAbsent
         /\ cdf.result.created = WholeFile(DocumentLineCount(cdf.current))
         /\ cdf.result.added = <<>>
         /\ cdf.result.removed = <<>>
         /\ cdf.result.changed = <<>>
    /\ BaseAbsent => cdf.result.created # <<>>
    /\ Diffed => processDiffResult(DiffLines(DiffedBase, cdf.current)).created = <<>>
    /\ parseUnifiedDiff(cdf.diffOut).created = <<>>

C11_Witness ==
  /\ ComputeDone /\ BaseAbsent
  /\ cdf.result.created = WholeFile(2)

\* the two texts differ by one final newline only
NewlineOnly(base, current) ==
  \/ ReplaceCrLf(base) = ReplaceCrLf(current) \o <<LF>>
  \/ ReplaceCrLf(current) = ReplaceCrLf(base) \o <<LF>>

\* C13: when the current text differs from the base only by the presence or
\* absence of a final newline, the classification of the pair is all empty.
C13_TrailingNewlineIgnored ==
  (ComputeDone /\ Diffed /\ NewlineOnly(DiffedBase, cdf.current)) => AllEmpty(cdf.result)

\* the editor shows n lines, none of them empty
NonEmptyLines(text, n) ==
  /\ DocumentLineCount(text) = n
  /\ \A k \in 1..n : Split(ReplaceCrLf(text))[k] # <<>>

MaxEditors == 2

\* what an editor shows before the update
Stale == [added |-> <<[startLine |-> 0, endLine |-> 0]>>, removed |-> <<>>,
          changed |-> <<>>, created |-> <<>>]

\* a visible editor: the scheme of its document, its text, the active snapshot
\* of its file and whether the file lies in a git repository
Editor(scheme, text, snapshot, gitRoot) ==
  [scheme |-> scheme, text |-> text, snapshot |-> snapshot, gitRoot |-> gitRoot]

Editors ==
  {Editor("file", t, sn, g) :
     t \in {<<"a", LF>>, <<"b">>}, sn \in {NoSnapshot, Snapshot(<<"a", LF>>)}, g \in BOOLEAN}
  \cup {Editor("output", <<"a", LF>>, NoSnapshot, FALSE)}

\* DecorationManager.computeDiffForFileAsync for a file shown in an editor: the
\* base content is the empty text
ManagerDiff(e) ==
  IF ~e.gitRoot THEN EmptyResult
  ELSE processDiffResult(DiffLines(<<>>, e.text))

\* vscode.window.visibleTextEditors[i] with the 0-based index of the loop
Visible(k) == upd.editors[k + 1]
InUpdate == upd.pc = "loop" /\ upd.i < Len(upd.editors)

\* applyDecorations(editor, diffs)
applyDecorations(decorations, k, diffs) == [decorations EXCEPT ![k + 1] = diffs]

\* clearDecorations(): every visible editor
clearDecorations(decorations) == [k \in DOMAIN decorations |-> EmptyResult]

\* editor.document.uri.scheme !== 'file'
SkipNonFile ==
  /\ InUpdate
  /\ Visible(upd.i).scheme # "file"
  /\ upd' = [upd EXCEPT !.i = @ + 1]
  /\ UNCHANGED <<engine, cdf, st, tm>>

\* the file has an active snapshot
DecorateSnapshot ==
  /\ InUpdate
  /\ Visible(upd.i).scheme = "file"
  /\ Visible(upd.i).snapshot.present
  /\ upd' = [upd EXCEPT
               !.decorations = applyDecorations(@, upd.i, ManagerDiff(Visible(upd.i))),
               !.i = @ + 1]
  /\ UNCHANGED <<engine, cdf, st, tm>>

\* no snapshot and no base ref: clear and return
ClearAndReturn ==
  /\ InUpdate
  /\ Visible(upd.i).scheme = "file"
  /\ ~Visible(upd.i).snapshot.present
  /\ ~upd.baseRef
  /\ upd' = [upd EXCEPT !.decorations = clearDecorations(@), !.pc = "done"]
  /\ UNCHANGED <<engine, cdf, st, tm>>

\* no snapshot: the diff against the base ref
DecorateRef ==
  /\ InUpdate
  /\ Visible(upd.i).scheme = "file"
  /\ ~Visible(upd.i).snapshot.present
  /\ upd.baseRef
  /\ upd' = [upd EXCEPT
               !.decorations = applyDecorations(@, upd.i, ManagerDiff(Visible(upd.i))),
               !.i = @ + 1]
  /\ UNCHANGED <<engine, cdf, st, tm>>

\* the loop is over
UpdateFinish ==
  /\ upd.pc = "loop" /\ upd.i >= Len(upd.editors)
  /\ upd' = [upd EXCEPT !.pc = "done"]
  /\ UNCHANGED <<engine, cdf, st, tm>>

NextDecorate ==
  \/ SkipNonFile
  \/ DecorateSnapshot
  \/ ClearAndReturn
  \/ DecorateRef
  \/ UpdateFinish

InitDecorate ==
  /\ EngineIdle
  /\ \E es \in SeqsUpTo(Editors, MaxEditors), ref \in BOOLEAN :
       upd = [pc |-> "loop", i |-> 0, editors |-> es, baseRef |-> ref,
              decorations |-> [k \in DOMAIN es |-> Stale]]
  /\ cdf = cdfIdle /\ st = stIdle /\ tm = tmIdle

SpecDecorate == InitDecorate /\ [][NextDecorate]_vars

\* C16: the classification applied to a visible editor whose file has an active
\* snapshot is the classification of (snapshot content, editor text), inside
\* or outside a git repository, with or without a tracking ref.
C16_SnapshotIsBase ==
  [][(InUpdate /\ Visible(upd.i).scheme = "file" /\ Visible(upd.i).snapshot.present) =>
       upd'.decorations[upd.i + 1] =
         processDiffResult(DiffLines(Visible(upd.i).snapshot.content, Visible(upd.i).text))]_vars

(* ------------- SourceTracker: snapshots and the update timer ----------- *)
MaxSnapshots == 2
MaxPending == 1
MaxRequests == 3

significantChangeThreshold == 10
significantLineThreshold == 2

\* the texts of the one tracked document; previousText undefined reads as ""
Texts == {<<"a">>, <<"b">>}

\* the values of a snapshot trigger setting
Settings == {"off", "snapshot", "activate", "auto"}

\* beforePaste and beforeDeletion: the same value, or one of the two off
TriggerPairs ==
  {<<s, s>> : s \in Settings} \cup {<<"off", "snapshot">>, <<"snapshot", "off">>}

\* s.replace('off', ''): the empty string is falsy
Enabled(setting) == setting # "off"

\* one content change: event.reason, the length of the inserted text, the
\* length of the replaced range, the lines inserted and replaced, whether the
\* inserted text is blank, whether the document is the active editor's
ContentChange(reason, textLength, rangeLength, addedLines, removedLines, blank, isActive) ==
  [reason |-> reason, textLength |-> textLength, rangeLength |-> rangeLength,
   addedLines |-> addedLines, removedLines |-> removedLines, blank |-> blank,
   isActive |-> isActive]

\* the changes drawn: undo, typing, indentation, a short insertion, a paste by
\* characters and by lines, a deletion by characters and by lines, a replacement
ChangeShapes ==
  {ContentChange(TRUE, 0, significantChangeThreshold, 0, 0, FALSE, FALSE),
   ContentChange(FALSE, 1, 0, 0, 0, FALSE, FALSE),
   ContentChange(FALSE, significantLineThreshold, 0, 0, 0, TRUE, FALSE),
   ContentChange(FALSE, significantChangeThreshold - 1, 0, 0, 0, FALSE, FALSE),
   ContentChange(FALSE, significantChangeThreshold, 0, 0, 0, FALSE, FALSE),
   ContentChange(FALSE, significantLineThreshold + 1, 0, significantLineThreshold, 0, FALSE, FALSE),
   ContentChange(FALSE, 0, significantChangeThreshold, 0, 0, FALSE, FALSE),
   ContentChange(FALSE, 0, significantLineThreshold + 1, 0, significantLineThreshold, FALSE, FALSE),
   ContentChange(FALSE, significantChangeThreshold, significantChangeThreshold, 0, 0, FALSE, FALSE)}

Changes == {[c EXCEPT !.isActive = ia] : c \in ChangeShapes, ia \in BOOLEAN}

isWhitespaceOnlyChange(c) == c.blank /\ c.rangeLength = 0
isSingleCharacterChange(c) == c.textLength = 1 /\ c.rangeLength <= 1

wasDeletion(c) ==
  /\ c.rangeLength >= significantChangeThreshold \/ c.removedLines >= significantLineThreshold
  /\ c.textLength - c.rangeLength < 0

wasPaste(c) ==
  /\ c.textLength >= significantChangeThreshold \/ c.addedLines >= significantLineThreshold
  /\ c.textLength - c.rangeLength > 0

\* variant: clearTimeout that cancels nothing
ClearTimeoutNoop(timers, handle) == timers

\* clearTimeout(handle): the timer, if still pending, never fires
ClearTimeout(timers, handle) == timers \ {handle}

\* if (diffTimeout) clearTimeout(diffTimeout); diffTimeout = setTimeout(..., 250)
Debounce(t, source) ==
  LET handle == Len(t.requests) + 1
      kept == IF t.diffTimeout # 0 THEN ClearTimeout(t.timers, t.diffTimeout) ELSE t.timers
  IN [diffTimeout |-> handle,
      timers |-> kept \cup {handle},
      requests |-> [k \in 1..handle |->
                      IF k = handle THEN [source |-> source, ran |-> 0, superseded |-> FALSE]
                      ELSE [t.requests[k] EXCEPT !.superseded = @ \/ k \in t.timers]]]

\* getActiveSnapshot(filePath)
HasActive == st.active # 0
ActiveContent == st.snapshots[st.active].content
\* metadata.message starts with '*': every snapshot but the user's own
IsAuto(snapshot) == snapshot.kind # "manual"
ActiveIsAuto == IsAuto(st.snapshots[st.active])

\* the snapshot calls still to come cannot exceed the bound
Room ==
  /\ Len(st.pending) < MaxPending
  /\ Len(st.snapshots) + Len(st.pending) < MaxSnapshots

\* a call suspended at await gitManager.getGitMetadata(filePath)
Suspended(kind, setting, content, before) ==
  [kind |-> kind, setting |-> setting, content |-> content, before |-> before,
   hadActive |-> HasActive, activeWasAuto |-> HasActive /\ ActiveIsAuto]

\* takeSnapshot: content and message stored under a fresh id
takeSnapshot(snapshots, content, kind, before) ==
  Append(snapshots, [content |-> content, kind |-> kind, before |-> before])

\* activate(): the listeners are registered and a first update is scheduled
Activate ==
  /\ st.phase = "constructed"
  /\ st' = [st EXCEPT !.phase = "active"]
  /\ tm' = Debounce(tm, "activation")
  /\ UNCHANGED <<engine, cdf, upd>>

\* the part of createSnapshot before its await: nothing without a previous text
Spawn(pending, c, beforePaste, beforeDeletion) ==
  IF st.previousText = <<>> THEN pending
  ELSE IF wasPaste(c) /\ Enabled(beforePaste)
       THEN Append(pending, Suspended("paste", beforePaste, <<>>, st.text))
  ELSE IF wasDeletion(c) /\ Enabled(beforeDeletion)
       THEN Append(pending, Suspended("deletion", beforeDeletion, <<>>, st.text))
  ELSE pending

\* handleDocChange for a change c of the tracked file that leaves the text newText
DocChange(c, newText, beforePaste, beforeDeletion) ==
  /\ st.phase = "active"
  /\ newText # st.text
  /\ IF \/ c.reason
        \/ isWhitespaceOnlyChange(c)
        \/ isSingleCharacterChange(c)
        \/ ~Enabled(beforePaste) /\ ~Enabled(beforeDeletion)
     THEN /\ st' = [st EXCEPT !.text = newText, !.previousText = newText]
          /\ tm' = tm
     ELSE /\ Room
          /\ Len(tm.requests) < MaxRequests
          /\ st' = [st EXCEPT !.text = newText,
                              !.pending = Spawn(@, c, beforePaste, beforeDeletion),
                              !.previousText = newText]
          /\ tm' = IF c.isActive THEN Debounce(tm, "docChange") ELSE tm
  /\ UNCHANGED <<engine, cdf, upd>>

\* the activation test of createSnapshot
ChangeActivates(setting, hadActive, activeWasAuto) ==
  \/ setting = "activate"
  \/ setting = "auto" /\ (~hadActive \/ activeWasAuto)

\* createSnapshot after its await: this.previousText is read now
ResumeCreateSnapshot(k) ==
  /\ k \in DOMAIN st.pending
  /\ st.pending[k].kind \in {"paste", "deletion"}
  /\ LET p == st.pending[k]
         snapshotId == Len(st.snapshots) + 1
     IN st' = [st EXCEPT
                 !.snapshots = takeSnapshot(@, st.previousText, p.kind, p.before),
                 !.active = IF ChangeActivates(p.setting, p.hadActive, p.activeWasAuto)
                            THEN snapshotId ELSE @,
                 !.pending = SubSeq(@, 1, k - 1) \o SubSeq(@, k + 1, Len(@))]
  /\ UNCHANGED <<engine, cdf, upd, tm>>

\* the activation test of handleDocumentSave, with the precedence of && over ||
SaveActivates(isDoubleSave, singleSaveTrigger, doubleSaveTrigger, hadActive, activeWasAuto) ==
  \/ isDoubleSave /\ doubleSaveTrigger = "activate"
  \/ ~isDoubleSave /\ singleSaveTrigger = "activate"
  \/ ~hadActive
  \/ /\ activeWasAuto
     /\ \/ isDoubleSave /\ doubleSaveTrigger = "auto"
        \/ ~isDoubleSave /\ singleSaveTrigger = "auto"

\* handleDocumentSave up to its await or its end
Save(singleSaveTrigger, doubleSaveTrigger) ==
  /\ st.phase = "active"
  /\ LET isDoubleSave == st.recentSave
         kind == IF isDoubleSave THEN "double-save" ELSE "single-save"
         setting == IF isDoubleSave THEN doubleSaveTrigger ELSE singleSaveTrigger
     IN IF \/ Enabled(singleSaveTrigger) /\ ~isDoubleSave
           \/ Enabled(doubleSaveTrigger) /\ isDoubleSave
        THEN IF HasActive /\ ActiveContent = st.text
             THEN st' = st
             ELSE /\ Room
                  /\ st' = [st EXCEPT
                              !.pending = Append(@, Suspended(kind, setting, st.text, st.text))]
        ELSE st' = [st EXCEPT !.recentSave = TRUE]
  /\ UNCHANGED <<engine, cdf, upd, tm>>

\* handleDocumentSave after its await
ResumeSave(k) ==
  /\ k \in DOMAIN st.pending
  /\ st.pending[k].kind \in {"single-save", "double-save"}
  /\ LET p == st.pending[k]
         isDoubleSave == p.kind = "double-save"
         snapshotId == Len(st.snapshots) + 1
     IN st' = [st EXCEPT
                 !.snapshots = takeSnapshot(@, p.content, p.kind, p.before),
                 !.active = IF SaveActivates(isDoubleSave, p.setting, p.setting,
                                             p.hadActive, p.activeWasAuto)
                            THEN snapshotId ELSE @,
                 !.pending = SubSeq(@, 1, k - 1) \o SubSeq(@, k + 1, Len(@)),
                 !.recentSave = TRUE]
  /\ UNCHANGED <<engine, cdf, upd, tm>>

\* more than the double-save interval passes since the last save
SaveIntervalPasses ==
  /\ st.recentSave
  /\ st' = [st EXCEPT !.recentSave = FALSE]
  /\ UNCHANGED <<engine, cdf, upd, tm>>

\* takeNewSnapshot with a message of the user: the new snapshot is activated
TakeNewSnapshot ==
  /\ st.phase = "active"
  /\ Room
  /\ st' = [st EXCEPT
              !.snapshots = takeSnapshot(@, st.text, "manual", st.text),
              !.active = Len(st.snapshots) + 1]
  /\ UNCHANGED <<engine, cdf, upd, tm>>

\* deactivateSnapshot: setActiveSnapshot(filePath, undefined)
DeactivateSnapshot ==
  /\ st.phase = "active"
  /\ HasActive
  /\ st' = [st EXCEPT !.active = 0]
  /\ UNCHANGED <<engine, cdf, upd, tm>>

\* handleActiveEditorChange(editor) with an editor
ActiveEditorChange ==
  /\ st.phase = "active"
  /\ Len(tm.requests) < MaxRequests
  /\ tm' = Debounce(tm, "activeEditorChange")
  /\ UNCHANGED <<engine, cdf, upd, st>>

\* the delay of a pending timer elapses: its callback calls updateDecorations
TimerFires(handle) ==
  /\ handle \in tm.timers
  /\ tm' = [tm EXCEPT !.timers = @ \ {handle},
                      !.requests[handle].ran = @ + 1]
  /\ UNCHANGED <<engine, cdf, upd, st>>

InitTracker ==
  /\ EngineIdle
  /\ cdf = cdfIdle /\ upd = updIdle
  /\ \E text \in Texts, n \in 1..(MaxSnapshots - 1) :
       st = [phase |-> "constructed", text |-> text, previousText |-> <<>>,
             snapshots |-> <<>>, active |-> 0, pending |-> <<>>,
             recentSave |-> FALSE, maxAutoSnapshots |-> n]
  /\ tm = [diffTimeout |-> 0, timers |-> {}, requests |-> <<>>]

\* a change of the tracked document while another editor is the active one
BackgroundDocChange ==
  \E c \in Changes, newText \in Texts, triggers \in TriggerPairs :
    ~c.isActive /\ DocChange(c, newText, triggers[1], triggers[2])

\* a change in the active editor that is neither trivial nor a paste or deletion
ActiveDocChange ==
  \E c \in Changes, newText \in Texts, triggers \in TriggerPairs :
    c.isActive /\ ~wasPaste(c) /\ ~wasDeletion(c)
      /\ DocChange(c, newText, triggers[1], triggers[2])

AnySave ==
  \E singleSaveTrigger \in Settings, doubleSaveTrigger \in Settings :
    Save(singleSaveTrigger, doubleSaveTrigger)

AnyResumeCreateSnapshot == \E k \in 1..MaxPending : ResumeCreateSnapshot(k)
AnyResumeSave == \E k \in 1..MaxPending : ResumeSave(k)
AnyTimerFires == \E handle \in 1..MaxRequests : TimerFires(handle)

\* the snapshot triggers
NextTracker ==
  \/ Activate
  \/ BackgroundDocChange
  \/ AnyResumeCreateSnapshot
  \/ AnySave
  \/ AnyResumeSave
  \/ SaveIntervalPasses
  \/ TakeNewSnapshot
  \/ DeactivateSnapshot

SpecTracker == InitTracker /\ [][NextTracker]_vars

\* the requests for a decoration update
NextDebounce ==
  \/ Activate
  \/ ActiveDocChange
  \/ ActiveEditorChange
  \/ AnyTimerFires

\* a pending timer fires once its delay has elapsed
SpecDebounce == InitTracker /\ [][NextDebounce]_vars /\ WF_vars(AnyTimerFires)

(* ------------------ properties of the SourceTracker -------------------- *)
\* C17: a snapshot created by the beforePaste or beforeDeletion trigger holds
\* the text of the document as it was before the triggering change.
C17_SnapshotBeforeChange ==
  \A k \in DOMAIN st.snapshots :
    st.snapshots[k].kind \in {"paste", "deletion"} =>
      st.snapshots[k].content = st.snapshots[k].before

\* C18: a save that matches a trigger creates a snapshot; with the setting
\* 'snapshot' it leaves the active snapshot of the file as it was, and the new
\* snapshot becomes the active one only for the settings 'activate' and 'auto',
\* also when no snapshot was active before.
C18_SnapshotSettingKeepsActive ==
  [][\A k \in 1..MaxPending :
       ResumeSave(k) =>
         /\ Len(st'.snapshots) = Len(st.snapshots) + 1
         /\ st.pending[k].setting = "snapshot" => st'.active = st.active
         /\ st'.active # st.active => st.pending[k].setting \in {"activate", "auto"}]_vars

AutoSnapshots == {k \in DOMAIN st.snapshots : IsAuto(st.snapshots[k])}

\* C19: the number of auto-generated snapshots stored for the file never
\* exceeds maxAutoSnapshots.
C19_AutoSnapshotsBounded == Cardinality(AutoSnapshots) <= st.maxAutoSnapshots

Ran(h) == tm.requests[h].ran
Superseded(h) == tm.requests[h].superseded

\* C20: at most one decoration-update timer is pending at any time; a request
\* superseded before its delay elapsed never runs updateDecorations; no request
\* runs it twice; and a pending request is superseded or runs it, so that the
\* last request of a burst runs it exactly once.
C20_DebounceReplaces ==
  /\ [](Cardinality(tm.timers) <= 1)
  /\ [](\A h \in DOMAIN tm.requests : Superseded(h) => Ran(h) = 0)
  /\ [](\A h \in DOMAIN tm.requests : Ran(h) <= 1)
  /\ [](\A h \in DOMAIN tm.requests : (Ran(h) = 0 /\ ~Superseded(h)) => h \in tm.timers)
  /\ \A h \in 1..MaxRequests :
       (h \in tm.timers) ~> (h \in DOMAIN tm.requests /\ (Superseded(h) \/ Ran(h) = 1))

\* a burst of two requests from different sources, of which only the last ran
C20_Witness ==
  /\ Len(tm.requests) >= 2
  /\ Superseded(1) /\ Ran(1) = 0
  /\ tm.requests[1].source # tm.requests[2].source
  /\ ~Superseded(2) /\ Ran(2) = 1

(* ------------------ parseUnifiedDiff: hunks and anchors ---------------- *)
\* the start and the counts a well-formed header "@@ -a,b +c,d @@" gives
HunkFields(line) ==
  LET s1 == 5
      e1 == DigitsEnd(line, s1)
      p1 == OptCount(line, e1)
      s2 == p1 + 2
      e2 == DigitsEnd(line, s2)
      p2 == OptCount(line, e2)
  IN [baseCount |-> IF p1 > e1 THEN ParseInt(SubSeq(line, e1 + 1, p1 - 1)) ELSE 1,
      targetStart |-> ParseInt(SubSeq(line, s2, e2 - 1)),
      targetCount |-> IF p2 > e2 THEN ParseInt(SubSeq(line, e2 + 1, p2 - 1)) ELSE 1]

\* the lines of the hunk body from index j that exist in the target file, each
\* with its rank k among them; b and t are the base and target lines the header
\* still announces
RECURSIVE TargetLines(_, _, _, _, _)
TargetLines(lines, j, b, t, k) ==
  IF (b = 0 /\ t = 0) \/ j >= Len(lines) THEN {}
  ELSE LET line == lines[j + 1]
       IN IF StartsWith(line, <<"+">>) /\ t > 0
          THEN {[at |-> j, rank |-> k, plus |-> TRUE]}
                 \cup TargetLines(lines, j + 1, b, t - 1, k + 1)
          ELSE IF StartsWith(line, <<"-">>) /\ b > 0
          THEN TargetLines(lines, j + 1, b - 1, t, k)
          ELSE IF StartsWith(line, <<" ">>) /\ b > 0 /\ t > 0
          THEN {[at |-> j, rank |-> k, plus |-> FALSE]}
                 \cup TargetLines(lines, j + 1, b - 1, t - 1, k + 1)
          ELSE {}

\* C21: within a hunk whose header gives the target start c, the k-th line of
\* the hunk that exists in the target file ('+' or context, k from 0) is read
\* with targetLineNum = c - 1 + k, '-' lines not shifting the numbering, and
\* every '+' line of the hunk, whatever its content, is covered by an added
\* range at that index.
C21_HunkLineNumbering ==
  pc.pud \in {"loop", "done"} =>
    \A h \in 0..(Len(pud.lines) - 1) :
      HunkMatch(pud.lines[h + 1]).matched =>
        LET f == HunkFields(pud.lines[h + 1])
        IN \A tl \in TargetLines(pud.lines, h + 1, f.baseCount, f.targetCount, 0) :
             /\ (pc.pud = "loop" /\ pud.i = tl.at) =>
                  pud.targetLineNum = f.targetStart - 1 + tl.rank
             /\ (ParserDone /\ tl.plus) =>
                  (f.targetStart - 1 + tl.rank) \in Covered(pud.added)

\* a context line of a hunk
IsContext(line) == StartsWith(line, <<" ">>)

\* C22: a '-' line yields a changed anchor only when a '+' line follows it with
\* no context line in between; a '-' line separated from the next '+' line by
\* one or more context lines yields a removed anchor.
C22_ChangedNeedsAdjacentPlus ==
  [][(InParse /\ IsMinus(Line(pud.i))) =>
       /\ pud'.changed # pud.changed =>
            /\ pud.i + 1 < Len(pud.lines)
            /\ StartsWith(Line(pud.i + 1), <<"+">>)
       /\ (pud.i + 1 < Len(pud.lines) /\ IsContext(Line(pud.i + 1))) =>
            /\ pud'.changed = pud.changed
            /\ pud.targetLineNum \in Anchored(pud'.removed)]_vars

(* --------------- processDiffResult: the end-of-file check -------------- *)
\* the added ranges when the loop is left, the open range closed
ClosedAdded ==
  IF pdr.currentAddedRange.isNull THEN pdr.added
  ELSE Append(pdr.added, Copy(pdr.currentAddedRange))

\* number of lines of the inserted and unchanged runs
TotalLines == Before(Len(diffResult) + 1)

\* the last run is an inserted run whose text is empty or one newline sequence
LastRunIsNewline ==
  /\ Len(diffResult) > 0
  /\ IsAdded(Len(diffResult))
  /\ diffResult[Len(diffResult)].value \in {<<>>, <<LF>>, <<CR, LF>>}

\* C23: after the pass, processDiffResult discards the last entry of added if
\* and only if that entry is a single-line range at the last current-file line
\* and the last run is an inserted run whose text is empty or exactly one
\* newline sequence; nothing else is discarded, and removed and changed are
\* left as they are.
C23_EndOfFileDiscard ==
  [][(pc.pdr = "loop" /\ pdr.i >= diffCount) =>
       LET n == Len(ClosedAdded)
           discard == /\ n > 0
                      /\ ClosedAdded[n].startLine = ClosedAdded[n].endLine
                      /\ ClosedAdded[n].startLine = TotalLines - 1
                      /\ LastRunIsNewline
       IN /\ pdr'.added = IF discard THEN SubSeq(ClosedAdded, 1, n - 1) ELSE ClosedAdded
          /\ pdr'.removed = pdr.removed
          /\ pdr'.changed = pdr.changed]_vars

\* a newline added after the last line: its range was there and is gone
C23_Witness ==
  /\ ClassifierDone
  /\ Len(diffResult) = 2
  /\ IsUnchanged(1) /\ RunLines(1) = 2
  /\ LastRunIsNewline /\ diffResult[2].value = <<LF>>
  /\ pdr.currentAddedRange = DiffRange(2, 2)
  /\ pdr.added = <<>>

(* ------------------ parseUnifiedDiff: line indices --------------------- *)
\* C24: for a unified diff with well-formed hunk headers, a header with target
\* start 0 included, every line index parseUnifiedDiff reports in added,
\* removed or changed is >= 0.
C24_ParserIndicesNonNegative ==
  ParserDone =>
    /\ \A j \in DOMAIN pud.added : pud.added[j].startLine >= 0 /\ pud.added[j].endLine >= 0
    /\ \A j \in DOMAIN pud.removed : pud.removed[j] >= 0
    /\ \A j \in DOMAIN pud.changed : pud.changed[j] >= 0

(* ------------- processDiffResult: coverage and index range ------------- *)
\* the current-file lines of run k
LinesOfRun(k) == Before(k)..(Before(k) + RunLines(k) - 1)

\* the current-file lines that belong to inserted runs
InsertedLines == UNION {LinesOfRun(k) : k \in {m \in DOMAIN diffResult : IsAdded(m)}}

\* the current-file lines that belong to unchanged runs
UnchangedLines == UNION {LinesOfRun(k) : k \in {m \in DOMAIN diffResult : IsUnchanged(m)}}

\* the lines the result marks as added or changed
Marked == Covered(pdr.added) \cup Anchored(pdr.changed)

\* C25: the lines covered by the added ranges and the changed anchors of the
\* result are exactly the current-file lines of the inserted runs, apart from
\* the single last line taken out by the end-of-file check; no line of an
\* unchanged run is marked added or changed.
C25_MarkedAreInserted ==
  ClassifierDone =>
    /\ \/ Marked = InsertedLines
       \/ LastRunIsNewline /\ Marked = InsertedLines \ {TotalLines - 1}
    /\ Marked \cap UnchangedLines = {}

\* a replacement longer than the deletion, after unchanged text: one changed
\* line and one added line, both in the inserted run
C25_Witness ==
  /\ ClassifierDone
  /\ Len(diffResult) = 3
  /\ IsUnchanged(1) /\ IsRemoved(2) /\ IsAdded(3)
  /\ RunLines(1) = 1 /\ RunLines(2) = 1 /\ RunLines(3) = 2
  /\ Marked = {1, 2} /\ InsertedLines = {1, 2}
  /\ Len(pdr.added) = 1 /\ Len(pdr.changed) = 1

\* C26: with N the number of lines of the inserted and unchanged runs, every
\* added range has 0 <= startLine <= endLine <= N-1, every changed anchor is in
\* 0..N-1 and every removed anchor in 0..N, the value N only for a deleted run
\* with no current-file line after it.
C26_IndicesInRange ==
  ClassifierDone =>
    /\ \A j \in DOMAIN pdr.added :
         /\ 0 <= pdr.added[j].startLine
         /\ pdr.added[j].startLine <= pdr.added[j].endLine
         /\ pdr.added[j].endLine <= TotalLines - 1
    /\ \A j \in DOMAIN pdr.changed : pdr.changed[j] \in 0..(TotalLines - 1)
    /\ \A j \in DOMAIN pdr.removed : pdr.removed[j] \in 0..TotalLines
    /\ (\E j \in DOMAIN pdr.removed : pdr.removed[j] = TotalLines) =>
         \E k \in DOMAIN diffResult : PurelyDeleted(k) /\ Before(k) = TotalLines

\* a deletion at the end of the file, after an insertion and a replacement
C26_Witness ==
  /\ ClassifierDone
  /\ \E j \in DOMAIN pdr.removed : pdr.removed[j] = TotalLines
  /\ TotalLines >= 2
  /\ pdr.added # <<>> /\ pdr.changed # <<>>

(* --------------- processDiffResult: the pending deletion --------------- *)
\* C30: a deletion is pending (removedLineCount > 0) only between a deleted run
\* and the inserted run that immediately follows it; at the start of a deleted
\* or unchanged run and after the last run none is pending, so the flushes in
\* the unchanged branch and after the loop add no anchor to removed.
C30_PendingOnlyBeforeInsertion ==
  /\ (pc.pdr = "loop" /\ pdr.removedLineCount > 0) =>
       /\ pdr.removedAt >= 0
       /\ 1 <= pdr.i /\ pdr.i < diffCount
       /\ IsRemoved(pdr.i)
       /\ IsAdded(pdr.i + 1)
  /\ ClassifierDone =>
       Len(pdr.removed) = Cardinality({k \in DOMAIN diffResult : PurelyDeleted(k)})

\* a deletion of two lines pending in front of the insertion that replaces it
C30_Witness ==
  /\ pc.pdr = "loop"
  /\ pdr.removedLineCount = 2 /\ pdr.removedAt = 1
  /\ pdr.i = 2 /\ diffCount = 3
  /\ IsUnchanged(1)

(* --------------- properties of updateDecorations ----------------------- *)
\* C27: with no tracking ref, when updateDecorations has completed, every
\* visible file editor with an active snapshot that the run decorated carries
\* the decorations computed for it in that run, also when an editor visited
\* later has no active snapshot.
C27_SnapshotDecorationsKept ==
  (upd.pc = "done" /\ ~upd.baseRef) =>
    \A k \in 1..Min(upd.i, Len(upd.editors)) :
      (upd.editors[k].scheme = "file" /\ upd.editors[k].snapshot.present) =>
        upd.decorations[k] = ManagerDiff(upd.editors[k])

(* ---------- VirtualGitDiff.updateDecorations: overlapping runs --------- *)
MaxUpdates == 2
MaxEdits == 2

\* stdout of `git show <ref>:<path>`: the content of the file at the base ref
OverlapBase == <<"a", LF>>

\* the texts the editor goes through
OverlapTexts == {<<"a", LF>>, <<"b", LF>>, <<"a", LF, "b">>}

\* the diff of the base content and the content a run has read
VirtualDiff(currentContent) == processDiffResult(DiffLines(OverlapBase, currentContent))

\* a run of updateDecorations at its only file editor: no active snapshot, base
\* ref set, git root found; it waits for resolveRefAsync
NewRun == [pc |-> "resolve", currentContent |-> <<>>, read |-> 0]

InOverlap == upd.pc = "overlap"

\* the user edits the document
EditText ==
  /\ InOverlap
  /\ upd.edits < MaxEdits
  /\ \E t \in OverlapTexts \ {upd.text} :
       upd' = [upd EXCEPT !.text = t, !.edits = @ + 1]
  /\ UNCHANGED <<engine, cdf, st, tm>>

\* updateDecorations is called (timer or command); nothing waits for a run in progress
StartUpdate ==
  /\ InOverlap
  /\ Len(upd.runs) < MaxUpdates
  /\ upd' = [upd EXCEPT !.runs = Append(@, NewRun)]
  /\ UNCHANGED <<engine, cdf, st, tm>>

\* resolveRefAsync returns: the run reads editor.document.getText() and starts git show
RefResolved(r) ==
  /\ InOverlap
  /\ upd.runs[r].pc = "resolve"
  /\ upd' = [upd EXCEPT
               !.reads = @ + 1,
               !.runs[r] = [pc |-> "show", currentContent |-> upd.text, read |-> upd.reads + 1]]
  /\ UNCHANGED <<engine, cdf, st, tm>>

\* applyDecorations(editor, diffs) of a run: whatever is on the editor is replaced
ApplyRun(decoration, run, reads) == VirtualDiff(run.currentContent)

\* git show of run r closes with status 0: diffLines, processDiffResult, applyDecorations
ShowReturns(r) ==
  /\ InOverlap
  /\ upd.runs[r].pc = "show"
  /\ upd' = [upd EXCEPT
               !.decoration = ApplyRun(@, upd.runs[r], upd.reads),
               !.runs[r].pc = "done"]
  /\ UNCHANGED <<engine, cdf, st, tm>>

AnyRefResolved == \E r \in DOMAIN upd.runs : RefResolved(r)
AnyShowReturns == \E r \in DOMAIN upd.runs : ShowReturns(r)

InitOverlap ==
  /\ EngineIdle
  /\ cdf = cdfIdle /\ st = stIdle /\ tm = tmIdle
  /\ \E t \in OverlapTexts :
       upd = [pc |-> "overlap", text |-> t, edits |-> 0, reads |-> 0,
              decoration |-> EmptyResult, runs |-> <<>>]

NextOverlap ==
  \/ EditText
  \/ StartUpdate
  \/ AnyRefResolved
  \/ AnyShowReturns

SpecOverlap == InitOverlap /\ [][NextOverlap]_vars

\* every run that was started has applied its decorations
AllRunsDone == \A r \in DOMAIN upd.runs : upd.runs[r].pc = "done"

\* C28: when overlapping runs of updateDecorations for the same editor have all
\* finished, the decorations on the editor are those computed from the most
\* recently read editor content; an older run does not overwrite a newer one.
C28_NewestRunWins ==
  (InOverlap /\ AllRunsDone) =>
    \A r \in DOMAIN upd.runs :
      upd.runs[r].read = upd.reads =>
        upd.decoration = processDiffResult(DiffLines(OverlapBase, upd.runs[r].currentContent))

(* --------------------------- SnapshotManager --------------------------- *)
MaxIds == 3

\* the files snapshots are taken of
Files == {"f", "g"}

\* snapshot ids are 1..MaxIds in the order they are generated; 0 stands for undefined
undefined == 0

\* this.index[filePath] of a file without an entry
NoEntry == [present |-> FALSE, snapshots |-> {}, activeSnapshot |-> undefined]

\* this.index[filePath] = { snapshots: {} }
EmptyEntry == [present |-> TRUE, snapshots |-> {}, activeSnapshot |-> undefined]

InManager == st.pc = "manager"

\* if (!this.index[filePath]) this.index[filePath] = { snapshots: {} }
Ensure(index, f) == IF index[f].present THEN index ELSE [index EXCEPT ![f] = EmptyEntry]

\* takeSnapshot(filePath, content, message): a fresh id, its content file, its metadata
ManagerTakeSnapshot(f) ==
  /\ InManager
  /\ st.nextId <= MaxIds
  /\ st' = [st EXCEPT
              !.contentFiles = @ \cup {st.nextId},
              !.index = [Ensure(@, f) EXCEPT ![f].snapshots = @ \cup {st.nextId}],
              !.nextId = @ + 1,
              !.returned = undefined]
  /\ UNCHANGED <<engine, cdf, upd, tm>>

\* setActiveSnapshot(filePath, snapshotId): any id, or undefined
SetActiveSnapshot(f, id) ==
  /\ InManager
  /\ st' = [st EXCEPT
              !.index = [Ensure(@, f) EXCEPT ![f].activeSnapshot = id],
              !.returned = undefined]
  /\ UNCHANGED <<engine, cdf, upd, tm>>

\* variant: the active id returned without looking it up
ActiveLookupUnchecked(entry, contentFiles) == entry.activeSnapshot

\* the id of the snapshot getActiveSnapshot returns, or undefined
ActiveLookup(entry, contentFiles) ==
  IF entry.activeSnapshot = undefined THEN undefined
  ELSE IF entry.activeSnapshot \notin entry.snapshots THEN undefined
  ELSE IF entry.activeSnapshot \notin contentFiles THEN undefined
  ELSE entry.activeSnapshot

\* getActiveSnapshot(filePath): an active id without metadata or content is cleared
GetActiveSnapshot(f) ==
  /\ InManager
  /\ LET entry == st.index[f]
         found == ActiveLookup(entry, st.contentFiles)
     IN st' = [st EXCEPT
                 !.index[f].activeSnapshot =
                    IF entry.activeSnapshot # undefined /\ found = undefined
                    THEN undefined ELSE @,
                 !.returned = found,
                 !.asked = f]
  /\ UNCHANGED <<engine, cdf, upd, tm>>

\* the state of the manager after deleteSnapshot(filePath, snapshotId)
Deleted(s, f, id) ==
  IF ~s.index[f].present THEN s
  ELSE LET entry == s.index[f]
           snapshots == entry.snapshots \ {id}
           active == IF entry.activeSnapshot = id THEN undefined ELSE entry.activeSnapshot
       IN [s EXCEPT
             !.contentFiles = @ \ {id},
             !.index[f] = IF snapshots = {} THEN NoEntry
                          ELSE [entry EXCEPT !.snapshots = snapshots,
                                             !.activeSnapshot = active]]

\* deleteSnapshot(filePath, snapshotId)
DeleteSnapshot(f, id) ==
  /\ InManager
  /\ st' = [Deleted(st, f, id) EXCEPT
              !.gone = @ \cup {<<f, id>>},
              !.returned = undefined]
  /\ UNCHANGED <<engine, cdf, upd, tm>>

\* clearSnapshots(filePath)
ClearSnapshots(f) ==
  /\ InManager
  /\ st' = [st EXCEPT
              !.contentFiles = IF st.index[f].present THEN @ \ st.index[f].snapshots ELSE @,
              !.index[f] = NoEntry,
              !.gone = @ \cup {<<f, id>> : id \in st.index[f].snapshots},
              !.returned = undefined]
  /\ UNCHANGED <<engine, cdf, upd, tm>>

\* getSnapshots(filePath): the snapshots of the index whose content file exists
GetSnapshots(s, f) == s.index[f].snapshots \cap s.contentFiles

\* the oldest snapshots deleted one by one until maxSnapshots remain
RECURSIVE DeleteOldest(_, _, _)
DeleteOldest(s, f, toDelete) ==
  IF toDelete = {} THEN s
  ELSE LET id == CHOOSE i \in toDelete : \A j \in toDelete : i <= j
       IN DeleteOldest(Deleted(s, f, id), f, toDelete \ {id})

\* trimSnapshots(filePath, maxSnapshots)
TrimSnapshots(f, maxSnapshots) ==
  /\ InManager
  /\ LET snapshots == GetSnapshots(st, f)
         excess == Cardinality(snapshots) - maxSnapshots
         toDelete == {i \in snapshots : Cardinality({j \in snapshots : j < i}) < excess}
     IN IF ~st.index[f].present \/ maxSnapshots <= 0 \/ excess <= 0
        THEN st' = [st EXCEPT !.returned = undefined]
        ELSE st' = [DeleteOldest(st, f, toDelete) EXCEPT
                      !.gone = @ \cup {<<f, id>> : id \in toDelete},
                      !.returned = undefined]
  /\ UNCHANGED <<engine, cdf, upd, tm>>

AnyTakeSnapshot == \E f \in Files : ManagerTakeSnapshot(f)
\* the ids generated so far: the ids a caller can know
Known == 1..(st.nextId - 1)

AnySetActiveSnapshot == \E f \in Files, id \in Known \cup {undefined} : SetActiveSnapshot(f, id)
AnyGetActiveSnapshot == \E f \in Files : GetActiveSnapshot(f)
AnyDeleteSnapshot == \E f \in Files, id \in Known : DeleteSnapshot(f, id)
AnyClearSnapshots == \E f \in Files : ClearSnapshots(f)
AnyTrimSnapshots == \E f \in Files, maxSnapshots \in 0..2 : TrimSnapshots(f, maxSnapshots)

\* a manager whose index file does not exist yet
InitManager ==
  /\ EngineIdle
  /\ cdf = cdfIdle /\ upd = updIdle /\ tm = tmIdle
  /\ st = [pc |-> "manager", index |-> [f \in Files |-> NoEntry], contentFiles |-> {},
           nextId |-> 1, gone |-> {}, returned |-> undefined, asked |-> "f"]

NextManager ==
  \/ AnyTakeSnapshot
  \/ AnySetActiveSnapshot
  \/ AnyGetActiveSnapshot
  \/ AnyDeleteSnapshot
  \/ AnyClearSnapshots
  \/ AnyTrimSnapshots

SpecManager == InitManager /\ [][NextManager]_vars

\* C29: after any sequence of takeSnapshot, setActiveSnapshot, deleteSnapshot,
\* clearSnapshots and trimSnapshots calls, getActiveSnapshot(file) returns
\* undefined or a snapshot whose id is in the index entry of the file, and never
\* an id that deleteSnapshot or clearSnapshots removed from that file.
C29_ActiveSnapshotInIndex ==
  (InManager /\ st.returned # undefined) =>
    /\ st.index[st.asked].present
    /\ st.returned \in st.index[st.asked].snapshots
    /\ <<st.asked, st.returned>> \notin st.gone

\* the active snapshot of a file returned after another snapshot of the file,
\* once active, was deleted
C29_Witness ==
  /\ InManager
  /\ st.returned = 2 /\ st.asked = "f"
  /\ <<"f", 1>> \in st.gone
  /\ st.index["f"].activeSnapshot = 2

====
